---- MODULE Spec2Model ----
(***************************************************************************)
(* Payroll Consolidation Tool (src/app.py).                                *)
(*                                                                         *)
(* Text is modelled as a sequence of one-character strings, so that the    *)
(* string operations of the code (rsplit, split, lower, endswith, the      *)
(* regular expressions, strptime, the substring test) are computed and not *)
(* assumed.  A DataFrame is a record [cols, rows]: cols is the ordered     *)
(* sequence of column names and rows a sequence of functions from the      *)
(* column names to cell values.                                            *)
(***************************************************************************)
EXTENDS Integers, Sequences, FiniteSets, TLC

VARIABLES
    \* the run block and consolidate (Spec)
    ref_file, payroll_files, confirmed, pc, ref_columns,
    idx, seen_bases, dfs, processed, skipped, warned, final_df, ui, document,
    \* one call of process_payroll_file (SpecExtract)
    x_file, x_pc, x_df,
    \* one call of reorder_like_reference (SpecReorder)
    r_all, r_ref, r_pc, r_k, new_order, r_log, r_out

vars == <<ref_file, payroll_files, confirmed, pc, ref_columns,
          idx, seen_bases, dfs, processed, skipped, warned, final_df, ui, document,
          x_file, x_pc, x_df,
          r_all, r_ref, r_pc, r_k, new_order, r_log, r_out>>

appVars == <<ref_file, payroll_files, confirmed, pc, ref_columns,
             idx, seen_bases, dfs, processed, skipped, warned, final_df, ui, document>>

extractVars == <<x_file, x_pc, x_df>>

reorderVars == <<r_all, r_ref, r_pc, r_k, new_order, r_log, r_out>>

(***************************************************************************)
(* Bounds of the model.                                                    *)
(***************************************************************************)
MaxUploads == 3

MaxRows == 3

MaxCols == 3

MaxRef == 2

(***************************************************************************)
(* Text helpers.                                                           *)
(***************************************************************************)
\* F applied to the value of v, v computed once
Then(v, F(_)) == CHOOSE r \in {F(x) : x \in {v}} : TRUE

Range(s) == {s[k] : k \in 1..Len(s)}

IsDistinct(s) == \A a, b \in 1..Len(s) : s[a] = s[b] => a = b

DigitChars == <<"0", "1", "2", "3", "4", "5", "6", "7", "8", "9">>

IsDigit(ch) == ch \in Range(DigitChars)

DigitVal(ch) == (CHOOSE k \in 1..10 : DigitChars[k] = ch) - 1

NonZeroDigit(ch) == IsDigit(ch) /\ ch # "0"

UpperChars == <<"A", "B", "C", "D", "E", "F", "G", "H", "I", "J", "K", "L", "M",
                "N", "O", "P", "Q", "R", "S", "T", "U", "V", "W", "X", "Y", "Z">>

LowerChars == <<"a", "b", "c", "d", "e", "f", "g", "h", "i", "j", "k", "l", "m",
                "n", "o", "p", "q", "r", "s", "t", "u", "v", "w", "x", "y", "z">>

\* str.lower()
Lower(s) ==
    [k \in 1..Len(s) |->
        IF s[k] \in Range(UpperChars)
        THEN LowerChars[CHOOSE j \in 1..26 : UpperChars[j] = s[k]]
        ELSE s[k]]

\* str.endswith(suf)
EndsWith(s, suf) ==
    /\ Len(s) >= Len(suf)
    /\ SubSeq(s, Len(s) - Len(suf) + 1, Len(s)) = suf

\* sub in s
Contains(sub, s) ==
    \E p \in 0..(Len(s) - Len(sub)) : SubSeq(s, p + 1, p + Len(sub)) = sub

\* name.rsplit(".", 1)[0]
RSplitDot(name) ==
    LET dots == {k \in 1..Len(name) : name[k] = "."}
    IN  IF dots = {} THEN name
        ELSE SubSeq(name, 1, (CHOOSE k \in dots : \A j \in dots : j <= k) - 1)

\* str.split("-", n=1): the parts, one or two
SplitHyphen(s) ==
    LET hy == {k \in 1..Len(s) : s[k] = "-"}
    IN  IF hy = {} THEN <<s>>
        ELSE LET h == CHOOSE k \in hy : \A j \in hy : k <= j
             IN  <<SubSeq(s, 1, h - 1), SubSeq(s, h + 1, Len(s))>>

\* re.sub(r"\d+$", "", col): "$" also matches just before a final newline
StripTrailingDigits(col) ==
    LET n    == Len(col)
        tail == IF n > 0 /\ col[n] = "\n" /\ n > 1 /\ IsDigit(col[n - 1]) THEN 1 ELSE 0
        body == n - tail
        keep == {k \in 0..body : \A j \in (k + 1)..body : IsDigit(col[j])}
        cut  == CHOOSE k \in keep : \A j \in keep : k <= j
    IN  SubSeq(col, 1, cut) \o SubSeq(col, body + 1, n)

(***************************************************************************)
(* Cell values.                                                            *)
(***************************************************************************)
\* a missing cell (NaN / None)
NaN == <<"NaN">>

\* astype(str)
AsStr(cell) == IF cell = NaN THEN <<"n", "a", "n">> ELSE cell

\* the missing date
NaT == [y |-> 0, m |-> 0, d |-> 0]

\* the missing Month
NoMonth == "NaN"

(***************************************************************************)
(* Column names used by the code.                                          *)
(***************************************************************************)
EmployeeID == <<"E", "m", "p", "l", "o", "y", "e", "e", " ", "I", "D", "*">>

PayrollPeriod == <<"P", "a", "y", "r", "o", "l", "l", " ", "P", "e", "r", "i", "o", "d">>

PayrollType == <<"P", "a", "y", "r", "o", "l", "l", " ", "T", "y", "p", "e">>

PayrollDate == <<"P", "a", "y", "r", "o", "l", "l", " ", "D", "a", "t", "e">>

Month == <<"M", "o", "n", "t", "h">>

CutoffType == <<"C", "u", "t", "o", "f", "f", " ", "T", "y", "p", "e">>

leading == <<PayrollType, PayrollDate, Month, CutoffType>>

(***************************************************************************)
(* The identifier pattern and the date format.                             *)
(***************************************************************************)
\* re.match(r"^\d{3}-\d{6}$", s): three digits, a hyphen, six digits, then the
\* end of the text or a newline that ends the text
MatchesPattern(s) ==
    /\ Len(s) \in {10, 11}
    /\ \A k \in 1..3 : IsDigit(s[k])
    /\ s[4] = "-"
    /\ \A k \in 5..10 : IsDigit(s[k])
    /\ Len(s) = 11 => s[11] = "\n"

\* %m is (1[0-2]|0[1-9]|[1-9]): the length alternative a matches at the start of s, or 0
MonthAlt(s, a) ==
    CASE a = 1 -> IF Len(s) >= 2 /\ s[1] = "1" /\ s[2] \in {"0", "1", "2"} THEN 2 ELSE 0
      [] a = 2 -> IF Len(s) >= 2 /\ s[1] = "0" /\ NonZeroDigit(s[2]) THEN 2 ELSE 0
      [] OTHER -> IF Len(s) >= 1 /\ NonZeroDigit(s[1]) THEN 1 ELSE 0

\* %d is (3[0-1]|[1-2]\d|0[1-9]|[1-9]| [1-9]): the length alternative b matches at p + 1, or 0
DayAlt(s, p, b) ==
    CASE b = 1 -> IF Len(s) >= p + 2 /\ s[p + 1] = "3" /\ s[p + 2] \in {"0", "1"} THEN 2 ELSE 0
      [] b = 2 -> IF Len(s) >= p + 2 /\ s[p + 1] \in {"1", "2"} /\ IsDigit(s[p + 2]) THEN 2 ELSE 0
      [] b = 3 -> IF Len(s) >= p + 2 /\ s[p + 1] = "0" /\ NonZeroDigit(s[p + 2]) THEN 2 ELSE 0
      [] b = 4 -> IF Len(s) >= p + 1 /\ NonZeroDigit(s[p + 1]) THEN 1 ELSE 0
      [] OTHER -> IF Len(s) >= p + 2 /\ s[p + 1] = " " /\ NonZeroDigit(s[p + 2]) THEN 2 ELSE 0

\* %Y is (\d\d\d\d)
YearAt(s, p) == Len(s) >= p + 4 /\ \A k \in (p + 1)..(p + 4) : IsDigit(s[k])

\* int() of the digits of s[from..to], a leading blank ignored
IntOf(s, from, to) ==
    LET v[k \in (from - 1)..to] ==
            IF k < from THEN 0
            ELSE IF s[k] = " " THEN v[k - 1]
            ELSE 10 * v[k - 1] + DigitVal(s[k])
    IN  v[to]

IsLeap(y) == (y % 4 = 0 /\ y % 100 # 0) \/ y % 400 = 0

DaysInMonth(y, m) ==
    IF m = 2 THEN (IF IsLeap(y) THEN 29 ELSE 28)
    ELSE IF m \in {4, 6, 9, 11} THEN 30 ELSE 31

\* the dates a nanosecond timestamp holds (midnight): 1677-09-22 .. 2262-04-11
InNsBounds(y, m, d) ==
    /\ y > 1677 \/ (y = 1677 /\ (m > 9 \/ (m = 9 /\ d >= 22)))
    /\ y < 2262 \/ (y = 2262 /\ (m < 4 \/ (m = 4 /\ d <= 11)))

\* the lengths <<lm, ld>> that %m and %d take in the match of the format's regular
\* expression at the start of s, its alternatives tried in order with
\* backtracking; <<0, 0>> when nothing matches
FormatMatch(s) ==
    Then({q \in (1..3) \X (1..5) :
             /\ MonthAlt(s, q[1]) > 0
             /\ DayAlt(s, MonthAlt(s, q[1]), q[2]) > 0
             /\ YearAt(s, MonthAlt(s, q[1]) + DayAlt(s, MonthAlt(s, q[1]), q[2]))},
         LAMBDA pairs :
            IF pairs = {} THEN <<0, 0>>
            ELSE Then(CHOOSE q \in pairs : \A o \in pairs :
                          q[1] < o[1] \/ (q[1] = o[1] /\ q[2] <= o[2]),
                      LAMBDA q : <<MonthAlt(s, q[1]), DayAlt(s, MonthAlt(s, q[1]), q[2])>>))

\* the date of month mm, day dd, year yy; NaT for an impossible or out-of-bounds one
DateOf(mm, dd, yy) ==
    IF yy >= 1 /\ dd <= DaysInMonth(yy, mm) /\ InNsBounds(yy, mm, dd)
    THEN [y |-> yy, m |-> mm, d |-> dd]
    ELSE NaT

\* pd.to_datetime(s, format="%m%d%Y", errors="coerce") of one text: no match, a
\* match that does not end s ("unconverted data remains"), an impossible calendar
\* date and a date out of bounds all give NaT; so does a missing text
ToDatetime(s) ==
    IF s = NaN THEN NaT
    ELSE Then(FormatMatch(s),
              LAMBDA q :
                 IF q[1] = 0 \/ q[1] + q[2] + 4 # Len(s) THEN NaT
                 ELSE DateOf(IntOf(s, 1, q[1]),
                             IntOf(s, q[1] + 1, q[1] + q[2]),
                             IntOf(s, q[1] + q[2] + 1, q[1] + q[2] + 4)))

\* Series.dt.day: the day, NaN for NaT (-1 stands for NaN: it equals no day)
DtDay(date) == IF date = NaT THEN -1 ELSE date.d

\* lambda x: "First Cutoff" if x == 15 else "Second Cutoff" if x in [30, 31] else "Other"
CutoffLambda(x) ==
    IF x = 15 THEN "First Cutoff"
    ELSE IF x \in {30, 31} THEN "Second Cutoff"
    ELSE "Other"

MonthNames == <<"January", "February", "March", "April", "May", "June", "July",
                "August", "September", "October", "November", "December">>

\* Series.dt.strftime("%B"): the month's name, NaN for NaT
StrftimeB(date) == IF date = NaT THEN NoMonth ELSE MonthNames[date.m]

(***************************************************************************)
(* DataFrame operations.                                                   *)
(***************************************************************************)
EmptyDF == [cols |-> <<>>, rows |-> <<>>]

\* the row r with value v under column c, over the columns cols
SetCell(r, cols, c, v) == [x \in Range(cols) |-> IF x = c THEN v ELSE r[x]]

\* df[c] = vals, vals[k] the value for row k: an existing column keeps its place,
\* a new one goes last
Assign(df, c, vals) ==
    Then(IF c \in Range(df.cols) THEN df.cols ELSE Append(df.cols, c),
         LAMBDA cols2 :
            [cols |-> cols2,
             rows |-> [k \in 1..Len(df.rows) |->
                          SetCell(df.rows[k], cols2, c, vals[k])]])


\* df[order] and df.reindex(columns=order): a name the table lacks gives a NaN column
Reindex(df, order) ==
    Then(order,
         LAMBDA o :
            [cols |-> o,
             rows |-> [k \in 1..Len(df.rows) |->
                          [x \in Range(o) |->
                              IF x \in Range(df.cols) THEN df.rows[k][x] ELSE NaN]]])

\* df.drop(columns=[c], errors="ignore")
DropColumn(df, c) == Reindex(df, SelectSeq(df.cols, LAMBDA x : x # c))

\* df.drop(df.index[:2]) when len(df.index) >= 2
DropSpacers(df) ==
    IF Len(df.rows) >= 2
    THEN [cols |-> df.cols, rows |-> SubSeq(df.rows, 3, Len(df.rows))]
    ELSE df

\* df[df["Employee ID*"].astype(str).str.match(pattern, na=False)]
FilterIds(df) ==
    IF EmployeeID \in Range(df.cols)
    THEN [cols |-> df.cols,
          rows |-> SelectSeq(df.rows, LAMBDA r : MatchesPattern(AsStr(r[EmployeeID])))]
    ELSE df

(***************************************************************************)
(* process_payroll_file.  An upload is [name, readable, cols, rows]: cols  *)
(* and rows are what read_excel(header=3) gives for a readable workbook;   *)
(* read_excel raises for an unreadable one.  The result is [ok, cols,      *)
(* rows], ok = FALSE standing for the exception.                           *)
(***************************************************************************)
\* period = name.rsplit(".", 1)[0] if name else ""
Period(name) == IF name # <<>> THEN RSplitDot(name) ELSE <<>>

\* a row of str.split("-", n=1, expand=True), reindexed to the columns 0 and 1
SplitRow(r) ==
    Then(SplitHyphen(r[PayrollPeriod]),
         LAMBDA parts : <<parts[1], IF Len(parts) >= 2 THEN parts[2] ELSE NaN>>)

\* a slip: the derived columns are not taken out of the rest
RemainingKeepsLeading(cols) == cols

\* remaining = [c for c in df.columns if c not in leading]
remaining(cols) == SelectSeq(cols, LAMBDA c : c \notin Range(leading))

process_payroll_file(file) ==
    IF ~file.readable THEN [ok |-> FALSE, cols |-> <<>>, rows |-> <<>>]
    ELSE
    LET df0 == [cols |-> file.cols, rows |-> file.rows]
        df1 == Then(df0, DropSpacers)
        df2 == Then(df1, FilterIds)
        df3 == Then(df2, LAMBDA d :
                   Assign(d, PayrollPeriod, [k \in 1..Len(d.rows) |-> Period(file.name)]))
        df4 == Then(df3, LAMBDA d :
                   Assign(d, PayrollType, [k \in 1..Len(d.rows) |-> SplitRow(d.rows[k])[1]]))
        df5 == Then(df4, LAMBDA d :
                   Assign(d, PayrollDate, [k \in 1..Len(d.rows) |-> SplitRow(d.rows[k])[2]]))
        df6 == Then(df5, LAMBDA d :
                   Assign(d, PayrollDate,
                          [k \in 1..Len(d.rows) |-> ToDatetime(d.rows[k][PayrollDate])]))
        df7 == Then(df6, LAMBDA d :
                   Assign(d, CutoffType,
                          [k \in 1..Len(d.rows) |->
                              CutoffLambda(DtDay(d.rows[k][PayrollDate]))]))
        df8 == Then(df7, LAMBDA d :
                   Assign(d, Month,
                          [k \in 1..Len(d.rows) |-> StrftimeB(d.rows[k][PayrollDate])]))
        df9 == Then(df8, LAMBDA d : DropColumn(d, PayrollPeriod))
    IN  Then(df9, LAMBDA d :
            [ok   |-> TRUE,
             cols |-> leading \o remaining(d.cols),
             rows |-> Reindex(d, leading \o remaining(d.cols)).rows])

\* derive_ref_columns: list(ref_df.columns), the exception passed on
derive_ref_columns(ref_uploaded) ==
    LET ref_df == process_payroll_file(ref_uploaded)
    IN  [ok |-> ref_df.ok, cols |-> ref_df.cols]

(***************************************************************************)
(* reorder_like_reference.                                                 *)
(***************************************************************************)
\* a slip: the order starts empty instead of as the reference's
StartEmpty(ref_cols) == <<>>

\* new_order = list(ref_cols)
StartOrder(ref_cols) == ref_cols

\* extras = [c for c in all_cols if c not in ref_cols]
Extras(all_cols, ref_cols) == SelectSeq(all_cols, LAMBDA c : c \notin Range(ref_cols))

\* near = [i for i, c in enumerate(new_order) if base and base in c], as positions from 1
Near(order, base) == {i \in 1..Len(order) : base # <<>> /\ Contains(base, order[i])}

\* list.insert(p, col) with p counted from 0: col comes after the first p names
InsertAt(order, p, col) == SubSeq(order, 1, p) \o <<col>> \o SubSeq(order, p + 1, Len(order))

\* a slip: near[0] instead of near[-1]
PlaceAfterFirst(order, col) ==
    LET near == Near(order, StripTrailingDigits(col))
    IN  IF near # {}
        THEN InsertAt(order, CHOOSE i \in near : \A j \in near : i <= j, col)
        ELSE Append(order, col)

\* the body of the loop over extras: insert after near[-1], or append
PlaceExtra(order, col) ==
    LET near == Near(order, StripTrailingDigits(col))
    IN  IF near # {}
        THEN InsertAt(order, CHOOSE i \in near : \A j \in near : j <= i, col)
        ELSE Append(order, col)

\* the whole loop over extras
RECURSIVE PlaceAll(_, _)
PlaceAll(order, extras) ==
    IF extras = <<>> THEN order
    ELSE PlaceAll(PlaceExtra(order, Head(extras)), Tail(extras))

\* a slip: names the table lacks are not dropped
UniqueKeepsAbsent(order, all_cols) ==
    LET keep == {i \in 1..Len(order) : \A j \in 1..(i - 1) : order[j] # order[i]}
        pick[i \in 0..Len(order)] ==
            IF i = 0 THEN <<>>
            ELSE IF i \in keep THEN Append(pick[i - 1], order[i]) ELSE pick[i - 1]
    IN  pick[Len(order)]

\* "ensure uniqueness": the first occurrence of each name that the table has
Unique(order, all_cols) ==
    LET keep == {i \in 1..Len(order) :
                    /\ order[i] \in Range(all_cols)
                    /\ \A j \in 1..(i - 1) : order[j] # order[i]}
        pick[i \in 0..Len(order)] ==
            IF i = 0 THEN <<>>
            ELSE IF i \in keep THEN Append(pick[i - 1], order[i]) ELSE pick[i - 1]
    IN  pick[Len(order)]

\* "include any missing columns": the table's columns not yet in out, in table order
IncludeMissing(out, all_cols) ==
    out \o SelectSeq(all_cols, LAMBDA c : c \notin Range(out))

\* the column order reorder_like_reference computes for a table with columns all_cols
ReorderColumns(all_cols, ref_cols) ==
    IncludeMissing(
        Unique(PlaceAll(StartOrder(ref_cols), Extras(all_cols, ref_cols)), all_cols),
        all_cols)

reorder_like_reference(df, ref_cols) ==
    Then(df, LAMBDA d : Reindex(d, ReorderColumns(d.cols, ref_cols)))

(***************************************************************************)
(* consolidate and the run block.                                          *)
(***************************************************************************)
\* name.lower().endswith(".xlsx")
IsXlsx(name) == EndsWith(Lower(name), <<".", "x", "l", "s", "x">>)

\* a slip: the base name is not remembered
AddNothing(seen, base) == seen

\* seen_bases.add(base)
AddSeen(seen, base) == seen \cup {base}

\* a slip: the exception leaves the loop, the remaining uploads are not read
LeaveLoop(pos, total) == total

\* except Exception: the warning is shown and the loop goes on with the next upload
AfterException(pos, total) == pos + 1

\* the columns of pd.concat(dfs): the union, in order of first appearance
RECURSIVE ConcatColumns(_)
ConcatColumns(tables) ==
    IF tables = <<>> THEN <<>>
    ELSE Then(ConcatColumns(SubSeq(tables, 1, Len(tables) - 1)),
              LAMBDA head :
                 head \o SelectSeq(tables[Len(tables)].cols, LAMBDA c : c \notin Range(head)))

\* pd.concat(dfs, ignore_index=True): every table's rows in turn, a column the
\* table lacks filled with NaN
Concat(tables) ==
    Then(ConcatColumns(tables),
         LAMBDA cols :
            [cols |-> cols,
             rows |-> LET part[k \in 0..Len(tables)] ==
                              IF k = 0 THEN <<>>
                              ELSE part[k - 1] \o Reindex(tables[k], cols).rows
                      IN  part[Len(tables)]])

\* DataFrame.empty: some axis has length 0
IsEmpty(df) == Len(df.cols) = 0 \/ Len(df.rows) = 0

(***************************************************************************)
(* Inputs: file names, workbook layouts and cells.                         *)
(***************************************************************************)
XLSX == <<".", "x", "l", "s", "x">>

Reg == <<"R", "e", "g">>

Bon == <<"B", "o", "n">>

Adj == <<"A", "d", "j">>

Name == <<"N", "a", "m", "e">>

Amount == <<"A", "m", "o", "u", "n", "t">>

Amount1 == <<"A", "m", "o", "u", "n", "t", "1">>

Dash(a, b) == a \o <<"-">> \o b

D01152024 == <<"0", "1", "1", "5", "2", "0", "2", "4">>

D01312024 == <<"0", "1", "3", "1", "2", "0", "2", "4">>

D04302024 == <<"0", "4", "3", "0", "2", "0", "2", "4">>

D02292024 == <<"0", "2", "2", "9", "2", "0", "2", "4">>

D02302024 == <<"0", "2", "3", "0", "2", "0", "2", "4">>

D13012024 == <<"1", "3", "0", "1", "2", "0", "2", "4">>

D01153000 == <<"0", "1", "1", "5", "3", "0", "0", "0">>

D1152024 == <<"1", "1", "5", "2", "0", "2", "4">>

D011520245 == <<"0", "1", "1", "5", "2", "0", "2", "4", "5">>

\* the second parts of the base names tried
DateParts ==
    {D01152024, D01312024, D04302024, D02292024, D02302024, D13012024,
     D01153000, D1152024, D011520245, Dash(Bon, D01152024), <<>>}

\* the base names tried: with one hyphen, with two, with none, with a dot
BaseNames ==
    {Dash(Reg, d) : d \in DateParts} \cup {Reg, <<"v", ".", "2">> \o Dash(Reg, D01152024)}

IdValid == <<"1", "2", "3", "-", "4", "5", "6", "7", "8", "9">>

\* the identifier cells tried: valid, valid with a line break typed after it, too
\* long, with a letter for a digit, missing
IdCells ==
    {IdValid, IdValid \o <<"\n">>, IdValid \o <<"0">>,
     <<"1", "2", "a", "-", "4", "5", "6", "7", "8", "9">>, NaN}

\* the header rows tried: with and without the identifier column, with columns
\* named like the derived fields and like the helper column, with no column
Layouts ==
    {<<EmployeeID, Name, Amount>>,
     <<Month, EmployeeID, PayrollType, Name>>,
     <<Name, Amount>>,
     <<CutoffType, PayrollPeriod, Name, PayrollDate>>,
     <<>>}

\* the cell of row k under column c: Name holds the row's letter, so that a row
\* is recognised after filtering
PlainCell(c, k) == IF c = Name THEN <<LowerChars[k]>> ELSE <<"v">>

\* the row k of a workbook with header cols and identifier cell id
MakeRow(cols, k, id) ==
    [c \in Range(cols) |-> IF c = EmployeeID THEN id ELSE PlainCell(c, k)]

\* the row sequences of a workbook with header cols, of at most n rows
RowSeqs(cols, n) ==
    IF cols = <<>> THEN {<<>>}
    ELSE UNION {
        {[k \in 1..len |-> MakeRow(cols, k, ids[k])] :
            ids \in IF EmployeeID \in Range(cols)
                    THEN [1..len -> IdCells]
                    ELSE {[k \in 1..len |-> NaN]}}
        : len \in 0..n}

Unreadable(name) == [name |-> name, readable |-> FALSE, cols |-> <<>>, rows |-> <<>>]

ExtractFiles ==
    UNION {
        {[name |-> b \o XLSX, readable |-> TRUE, cols |-> cols, rows |-> rows] :
            b \in BaseNames, rows \in RowSeqs(cols, MaxRows)}
        : cols \in Layouts}
    \cup {Unreadable(Dash(Reg, D01152024) \o XLSX)}

(***************************************************************************)
(* SpecExtract: one call of process_payroll_file on any of the inputs.     *)
(***************************************************************************)
AppIdle ==
    /\ ref_file = Unreadable(<<>>) /\ payroll_files = <<>> /\ confirmed = FALSE
    /\ pc = "idle" /\ ref_columns = <<>> /\ idx = 0 /\ seen_bases = {}
    /\ dfs = <<>> /\ processed = <<>> /\ skipped = <<>> /\ warned = <<>>
    /\ final_df = EmptyDF /\ ui = "none" /\ document = EmptyDF

ExtractIdle ==
    /\ x_file = Unreadable(<<>>) /\ x_pc = "idle"
    /\ x_df = [ok |-> FALSE, cols |-> <<>>, rows |-> <<>>]

ReorderIdle ==
    /\ r_all = <<>> /\ r_ref = <<>> /\ r_pc = "idle" /\ r_k = 0
    /\ new_order = <<>> /\ r_log = <<>> /\ r_out = <<>>

InitExtract ==
    /\ AppIdle /\ ReorderIdle
    /\ x_file \in ExtractFiles
    /\ x_pc = "call"
    /\ x_df = [ok |-> FALSE, cols |-> <<>>, rows |-> <<>>]

Extract ==
    /\ x_pc = "call"
    /\ x_df' = process_payroll_file(x_file)
    /\ x_pc' = "done"
    /\ UNCHANGED <<x_file, appVars, reorderVars>>

NextExtract == Extract

SpecExtract == InitExtract /\ [][NextExtract]_vars

(***************************************************************************)
(* Claims about process_payroll_file, checked under SpecExtract.           *)
(***************************************************************************)
Extracted == x_pc = "done" /\ x_df.ok

\* C4: in every extracted row, Cutoff Type is "First Cutoff" iff the day of Payroll
\* Date is 15, "Second Cutoff" iff it is 30 or 31, "Other" for every other valid
\* day, and null (not "Other") when Payroll Date is null; Month is null when
\* Payroll Date is null.
C4_CutoffOfEveryRow ==
    Extracted =>
        \A k \in 1..Len(x_df.rows) :
            LET r == x_df.rows[k]
                date == r[PayrollDate]
            IN  IF date = NaT
                THEN /\ r[CutoffType] \notin {"First Cutoff", "Second Cutoff", "Other"}
                     /\ r[Month] = NoMonth
                ELSE /\ r[CutoffType] = "First Cutoff" <=> date.d = 15
                     /\ r[CutoffType] = "Second Cutoff" <=> date.d \in {30, 31}
                     /\ r[CutoffType] = "Other" <=> date.d \notin {15, 30, 31}

\* C5: after a successful extraction the first four columns are Payroll Type,
\* Payroll Date, Month, Cutoff Type in that order, the columns after them are the
\* original columns other than those four and the helper, in their original
\* order, and the helper column Payroll Period is not in the output.
C5_LeadingThenOriginal ==
    Extracted =>
        /\ Len(x_df.cols) >= 4
        /\ SubSeq(x_df.cols, 1, 4) = <<PayrollType, PayrollDate, Month, CutoffType>>
        /\ SubSeq(x_df.cols, 5, Len(x_df.cols))
             = SelectSeq(x_file.cols,
                         LAMBDA c : c \notin {PayrollType, PayrollDate, Month,
                                              CutoffType, PayrollPeriod})
        /\ PayrollPeriod \notin Range(x_df.cols)
        /\ \A k \in 1..Len(x_df.rows) : DOMAIN x_df.rows[k] = Range(x_df.cols)

\* C5: a workbook whose header already names a derived field and the helper or of
\* which no row survives the filter has been extracted.
C5_Witness ==
    /\ Extracted
    /\ Month \in Range(x_file.cols)
    /\ Len(x_file.rows) = 3
    /\ x_df.rows = <<>>

\* three digits, a hyphen and six digits, and nothing else
ExactIdentifier(s) ==
    /\ Len(s) = 10
    /\ \A k \in 1..10 : IF k = 4 THEN s[k] = "-" ELSE IsDigit(s[k])

\* C6: with a column Employee ID*, a row is in the extracted table only if its
\* identifier as text is exactly three digits, a hyphen and six digits; without
\* that column every row is kept apart from the two spacer rows after the header.
C6_OnlyExactIdentifiers ==
    Extracted =>
        IF EmployeeID \in Range(x_file.cols)
        THEN \A k \in 1..Len(x_df.rows) : ExactIdentifier(AsStr(x_df.rows[k][EmployeeID]))
        ELSE LET kept == IF Len(x_file.rows) >= 2
                         THEN SubSeq(x_file.rows, 3, Len(x_file.rows))
                         ELSE x_file.rows
             IN  /\ Len(x_df.rows) = Len(kept)
                 /\ \A k \in 1..Len(kept) :
                        \A c \in Range(x_file.cols) \ (Range(leading) \cup {PayrollPeriod}) :
                            x_df.rows[k][c] = kept[k][c]

\* a date written as two digits of month, two of day and four of year
ValidMMDDYYYY(s) ==
    /\ Len(s) = 8
    /\ \A k \in 1..8 : IsDigit(s[k])
    /\ IntOf(s, 1, 2) \in 1..12
    /\ IntOf(s, 5, 8) >= 1
    /\ IntOf(s, 3, 4) \in 1..DaysInMonth(IntOf(s, 5, 8), IntOf(s, 1, 2))

\* C7: Payroll Type is the base name up to its first hyphen and Payroll Date is
\* what follows that hyphen read as MMDDYYYY; a base name without hyphen gives the
\* whole base name and a null date; what follows the hyphen, when it is not a valid
\* MMDDYYYY date, gives a null date, and extraction does not fail on it.
C7_TypeAndDateFromName ==
    x_pc = "done" =>
        /\ x_file.readable => x_df.ok
        /\ x_df.ok =>
            \A k \in 1..Len(x_df.rows) :
                LET r     == x_df.rows[k]
                    base  == RSplitDot(x_file.name)
                    parts == SplitHyphen(base)
                IN  /\ r[PayrollType] = parts[1]
                    /\ Len(parts) = 1 => r[PayrollType] = base /\ r[PayrollDate] = NaT
                    /\ Len(parts) = 2 /\ ~ValidMMDDYYYY(parts[2]) => r[PayrollDate] = NaT
                    /\ (/\ Len(parts) = 2
                        /\ ValidMMDDYYYY(parts[2])
                        /\ InNsBounds(IntOf(parts[2], 5, 8), IntOf(parts[2], 1, 2),
                                      IntOf(parts[2], 3, 4)))
                        => r[PayrollDate] = [y |-> IntOf(parts[2], 5, 8),
                                             m |-> IntOf(parts[2], 1, 2),
                                             d |-> IntOf(parts[2], 3, 4)]

(***************************************************************************)
(* SpecReorder: one call of reorder_like_reference, the loop over extras   *)
(* taken one column at a time, on any table header and any reference list. *)
(***************************************************************************)
NetPay == <<"N", "e", "t", " ", "P", "a", "y">>

Pay1 == <<"P", "a", "y", "1">>

Net2 == <<"N", "e", "t", "2">>

Pay2 == <<"P", "a", "y", "2">>

Y24 == <<"2", "4">>

ColumnNames == {NetPay, Pay1, Pay2, Net2, Y24}

SeqsUpTo(S, n) == UNION {[1..len -> S] : len \in 0..n}

InitReorder ==
    /\ AppIdle /\ ExtractIdle
    /\ r_all \in {s \in SeqsUpTo(ColumnNames, MaxCols) : IsDistinct(s)}
    /\ r_ref \in SeqsUpTo(ColumnNames, MaxRef)
    /\ r_pc = "extras"
    /\ r_k = 0
    /\ new_order = StartOrder(r_ref)
    /\ r_log = <<>>
    /\ r_out = <<>>

\* one turn of "for col in extras"
PlaceNext ==
    /\ r_pc = "extras"
    /\ r_k < Len(Extras(r_all, r_ref))
    /\ LET col == Extras(r_all, r_ref)[r_k + 1]
       IN  /\ new_order' = PlaceExtra(new_order, col)
           /\ r_log' = Append(r_log, [col |-> col,
                                      hit |-> Near(new_order, StripTrailingDigits(col)) # {}])
    /\ r_k' = r_k + 1
    /\ UNCHANGED <<r_all, r_ref, r_pc, r_out, appVars, extractVars>>

\* the two loops after the extras, and the return
FinishReorder ==
    /\ r_pc = "extras"
    /\ r_k = Len(Extras(r_all, r_ref))
    /\ r_out' = IncludeMissing(Unique(new_order, r_all), r_all)
    /\ r_pc' = "done"
    /\ UNCHANGED <<r_all, r_ref, r_k, new_order, r_log, appVars, extractVars>>

NextReorder == PlaceNext \/ FinishReorder

SpecReorder == InitReorder /\ [][NextReorder]_vars

(***************************************************************************)
(* Claims about reorder_like_reference, checked under SpecReorder.         *)
(***************************************************************************)
\* the place of the first name equal to c in s
IndexOf(s, c) == CHOOSE i \in 1..Len(s) : s[i] = c /\ \A j \in 1..(i - 1) : s[j] # c

\* C1: whatever the reference list holds, the output columns are exactly the
\* table's columns, each once: none missing, none repeated, none made up.
C1_ExactlyTheTableColumns ==
    r_pc = "done" =>
        /\ IsDistinct(r_out)
        /\ Range(r_out) = Range(r_all)
        /\ Len(r_out) = Len(r_all)

\* C1: a call has returned whose reference list holds a name the table lacks and
\* a name it has, and lacks a column of the table.
C1_Witness ==
    /\ r_pc = "done"
    /\ Range(r_ref) \ Range(r_all) # {}
    /\ Range(r_all) \ Range(r_ref) # {}
    /\ Range(r_all) \cap Range(r_ref) # {}

\* C2: two columns that are both in the reference list and in the table come out
\* in the order the reference list gives them, whatever extras are inserted.
C2_CanonicalOrderKept ==
    r_pc = "done" =>
        \A a, b \in Range(r_ref) \cap Range(r_all) :
            IndexOf(r_out, a) < IndexOf(r_out, b) <=> IndexOf(r_ref, a) < IndexOf(r_ref, b)

\* C2: a call has returned in which two reference columns stand in the table in
\* the opposite order and an extra column was inserted.
C2_Witness ==
    /\ r_pc = "done"
    /\ r_log # <<>>
    /\ \E a, b \in Range(r_ref) \cap Range(r_all) :
           /\ IndexOf(r_ref, a) < IndexOf(r_ref, b)
           /\ IndexOf(r_all, b) < IndexOf(r_all, a)
           /\ IndexOf(r_out, a) < IndexOf(r_out, b)

\* C10 as claimed: every extra column whose base, non-empty, was found in the
\* order when the column was placed stands in the final output immediately after
\* a column whose name contains that base.
C10_AdjacentInFinalOutput ==
    r_pc = "done" =>
        \A k \in 1..Len(r_log) :
            r_log[k].hit =>
                \E p \in 1..(Len(r_out) - 1) :
                    /\ r_out[p + 1] = r_log[k].col
                    /\ Contains(StripTrailingDigits(r_log[k].col), r_out[p])

\* C10 as amended: when an extra column c is placed, it is inserted immediately
\* after the last name of the order as it stands then that contains c's base, the
\* rest of the order unchanged, if the base is not empty and some name contains
\* it; otherwise c is appended at the end of the order as it stands then.
C10_PlacedAfterLastMatch ==
    [][r_k' = r_k + 1 =>
        LET c    == Extras(r_all, r_ref)[r_k']
            base == StripTrailingDigits(c)
        IN  IF base # <<>> /\ \E i \in 1..Len(new_order) : Contains(base, new_order[i])
            THEN \E p \in 1..Len(new_order) :
                    /\ Contains(base, new_order[p])
                    /\ \A q \in (p + 1)..Len(new_order) : ~Contains(base, new_order[q])
                    /\ Len(new_order') = Len(new_order) + 1
                    /\ new_order'[p + 1] = c
                    /\ \A q \in 1..p : new_order'[q] = new_order[q]
                    /\ \A q \in (p + 1)..Len(new_order) : new_order'[q + 1] = new_order[q]
            ELSE new_order' = Append(new_order, c)]_vars

\* C10: a call has returned in which one extra was inserted after a match, another
\* was appended, and an inserted one no longer follows a column containing its base.
C10_Witness ==
    /\ r_pc = "done"
    /\ \E k \in 1..Len(r_log) : ~r_log[k].hit
    /\ \E k \in 1..Len(r_log) :
           /\ r_log[k].hit
           /\ ~\E p \in 1..(Len(r_out) - 1) :
                   /\ r_out[p + 1] = r_log[k].col
                   /\ Contains(StripTrailingDigits(r_log[k].col), r_out[p])

(***************************************************************************)
(* Spec: the run block on any uploads of the pool, consolidate taken one   *)
(* upload at a time.                                                       *)
(***************************************************************************)
TXT == <<".", "t", "x", "t">>

NoFile == Unreadable(<<>>)

\* a workbook whose rows carry the letters from + 1, from + 2, ... under Name
Workbook(name, cols, from, ids) ==
    [name |-> name, readable |-> TRUE, cols |-> cols,
     rows |-> [k \in 1..Len(ids) |-> MakeRow(cols, from + k, ids[k])]]

\* the payroll uploads tried: the same name twice with different content, the same
\* base with the extension in capitals, an unreadable workbook, a workbook none
\* of whose rows survives, a name with another extension, an extra column
PayrollPool ==
    {Workbook(Dash(Reg, D01152024) \o XLSX, <<EmployeeID, Name, Amount>>, 0,
              <<NaN, NaN, IdValid>>),
     Workbook(Dash(Reg, D01152024) \o XLSX, <<EmployeeID, Name, Amount1>>, 3,
              <<NaN, NaN, IdValid, IdValid>>),
     Workbook(Dash(Adj, D04302024) \o <<".", "X", "L", "S", "X">>, <<EmployeeID, Name>>, 7,
              <<NaN, NaN, IdValid>>),
     Unreadable(Dash(Adj, D04302024) \o XLSX),
     Workbook(Dash(Bon, D01312024) \o XLSX, <<EmployeeID, Name, Amount>>, 10,
              <<NaN, NaN, NaN>>),
     Workbook(Dash(Reg, D01152024) \o TXT, <<EmployeeID, Name>>, 13,
              <<NaN, NaN, IdValid>>),
     Workbook(Dash(Bon, D01312024) \o XLSX, <<Name, Amount1, EmployeeID>>, 16,
              <<NaN, NaN, IdValid>>)}

\* the reference uploads tried: none, a readable one, an unreadable one
RefPool ==
    {NoFile,
     Workbook(Dash(<<"R", "E", "F">>, D01152024) \o XLSX, <<EmployeeID, Name, Amount>>, 0, <<>>),
     Unreadable(Dash(<<"R", "E", "F">>, D01152024) \o XLSX)}

NoDocument == [made |-> FALSE, table |-> EmptyDF]

Init ==
    /\ ExtractIdle /\ ReorderIdle
    /\ ref_file \in RefPool
    /\ payroll_files \in SeqsUpTo(PayrollPool, MaxUploads)
    /\ confirmed \in BOOLEAN
    /\ pc = "start"
    /\ ref_columns = <<>>
    /\ idx = 0
    /\ seen_bases = {}
    /\ dfs = <<>> /\ processed = <<>> /\ skipped = <<>> /\ warned = <<>>
    /\ final_df = EmptyDF
    /\ ui = "none"
    /\ document = NoDocument

Stop(message) ==
    /\ ui' = message
    /\ pc' = "done"
    /\ UNCHANGED <<ref_file, payroll_files, confirmed, ref_columns, idx, seen_bases,
                   dfs, processed, skipped, warned, final_df, document,
                   extractVars, reorderVars>>

\* if not ref_file: st.error
GateReference ==
    /\ pc = "start"
    /\ ref_file = NoFile
    /\ Stop("error: Please upload the Reference Columns workbook.")

\* elif len(payroll_files) == 0: st.error
GatePayroll ==
    /\ pc = "start"
    /\ ref_file # NoFile
    /\ Len(payroll_files) = 0
    /\ Stop("error: Please upload at least one payroll file.")

\* elif not confirmed: st.error
GateConfirmed ==
    /\ pc = "start"
    /\ ref_file # NoFile
    /\ Len(payroll_files) # 0
    /\ ~confirmed
    /\ Stop("error: Please confirm that the files are complete and correct.")

Gated == pc = "start" /\ ref_file # NoFile /\ Len(payroll_files) # 0 /\ confirmed

\* derive_ref_columns raises: st.error, st.stop()
DeriveFails ==
    /\ Gated
    /\ ~derive_ref_columns(ref_file).ok
    /\ Stop("error: Unable to derive reference columns")

\* derive_ref_columns returns, consolidate is entered
DeriveColumns ==
    /\ Gated
    /\ derive_ref_columns(ref_file).ok
    /\ ref_columns' = derive_ref_columns(ref_file).cols
    /\ pc' = "loop"
    /\ UNCHANGED <<ref_file, payroll_files, confirmed, idx, seen_bases, dfs, processed,
                   skipped, warned, final_df, ui, document, extractVars, reorderVars>>

InLoop == pc = "loop" /\ idx < Len(payroll_files)

uf == payroll_files[idx + 1]

\* if not name.lower().endswith(".xlsx"): continue
SkipOtherExtension ==
    /\ InLoop
    /\ ~IsXlsx(uf.name)
    /\ idx' = idx + 1
    /\ UNCHANGED <<ref_file, payroll_files, confirmed, pc, ref_columns, seen_bases, dfs,
                   processed, skipped, warned, final_df, ui, document,
                   extractVars, reorderVars>>

\* if base in seen_bases: skipped.append(name); continue
SkipDuplicate ==
    /\ InLoop
    /\ IsXlsx(uf.name)
    /\ RSplitDot(uf.name) \in seen_bases
    /\ skipped' = Append(skipped, uf.name)
    /\ idx' = idx + 1
    /\ UNCHANGED <<ref_file, payroll_files, confirmed, pc, ref_columns, seen_bases, dfs,
                   processed, warned, final_df, ui, document, extractVars, reorderVars>>

\* seen_bases.add(base); df = process_payroll_file(b); dfs.append(df); processed.append(name)
ExtractFile ==
    /\ InLoop
    /\ IsXlsx(uf.name)
    /\ RSplitDot(uf.name) \notin seen_bases
    /\ process_payroll_file(uf).ok
    /\ seen_bases' = AddSeen(seen_bases, RSplitDot(uf.name))
    /\ dfs' = Append(dfs, Then(process_payroll_file(uf),
                               LAMBDA df : [cols |-> df.cols, rows |-> df.rows]))
    /\ processed' = Append(processed, uf.name)
    /\ idx' = idx + 1
    /\ UNCHANGED <<ref_file, payroll_files, confirmed, pc, ref_columns, skipped, warned,
                   final_df, ui, document, extractVars, reorderVars>>

\* seen_bases.add(base); process_payroll_file raises; st.warning
ExtractRaises ==
    /\ InLoop
    /\ IsXlsx(uf.name)
    /\ RSplitDot(uf.name) \notin seen_bases
    /\ ~process_payroll_file(uf).ok
    /\ seen_bases' = AddSeen(seen_bases, RSplitDot(uf.name))
    /\ warned' = Append(warned, uf.name)
    /\ idx' = AfterException(idx, Len(payroll_files))
    /\ UNCHANGED <<ref_file, payroll_files, confirmed, pc, ref_columns, dfs, processed,
                   skipped, final_df, ui, document, extractVars, reorderVars>>

\* after the loop: the empty table, or the tables concatenated and reordered
ConsolidateReturns ==
    /\ pc = "loop"
    /\ idx = Len(payroll_files)
    /\ final_df' = IF dfs = <<>> THEN EmptyDF
                   ELSE reorder_like_reference(Concat(dfs), ref_columns)
    /\ pc' = "report"
    /\ UNCHANGED <<ref_file, payroll_files, confirmed, ref_columns, idx, seen_bases, dfs,
                   processed, skipped, warned, ui, document, extractVars, reorderVars>>

\* if final_df.empty: st.warning
ReportEmpty ==
    /\ pc = "report"
    /\ IsEmpty(final_df)
    /\ ui' = "warning: No files were processed."
    /\ pc' = "done"
    /\ UNCHANGED <<ref_file, payroll_files, confirmed, ref_columns, idx, seen_bases, dfs,
                   processed, skipped, warned, final_df, document,
                   extractVars, reorderVars>>

\* else: st.success, the lists, the workbook written and offered for download
ReportDone ==
    /\ pc = "report"
    /\ ~IsEmpty(final_df)
    /\ ui' = "success: Consolidation completed."
    /\ document' = [made |-> TRUE, table |-> final_df]
    /\ pc' = "done"
    /\ UNCHANGED <<ref_file, payroll_files, confirmed, ref_columns, idx, seen_bases, dfs,
                   processed, skipped, warned, final_df, extractVars, reorderVars>>

Next ==
    \/ GateReference \/ GatePayroll \/ GateConfirmed
    \/ DeriveFails \/ DeriveColumns
    \/ SkipOtherExtension \/ SkipDuplicate \/ ExtractFile \/ ExtractRaises
    \/ ConsolidateReturns
    \/ ReportEmpty \/ ReportDone

Spec == Init /\ [][Next]_vars

(***************************************************************************)
(* Claims about consolidate and the run block, checked under Spec.         *)
(***************************************************************************)
\* the uploads read so far, as places in payroll_files
Places(n) == [k \in 1..n |-> k]

NameAt(i) == payroll_files[i].name

HasXlsxName(i) == EndsWith(Lower(NameAt(i)), XLSX)

\* upload i is an .xlsx file whose base name an earlier .xlsx upload has
LaterDuplicate(i) ==
    /\ HasXlsxName(i)
    /\ \E j \in 1..(i - 1) : HasXlsxName(j) /\ RSplitDot(NameAt(j)) = RSplitDot(NameAt(i))

\* upload i is an .xlsx file, the first of its base name
Admitted(i) == HasXlsxName(i) /\ ~LaterDuplicate(i)

NamesOf(places) == [k \in 1..Len(places) |-> NameAt(places[k])]

TableOf(i) ==
    Then(process_payroll_file(payroll_files[i]),
         LAMBDA t : [cols |-> t.cols, rows |-> t.rows])

\* the cells under Name of the rows of the tables, in order
RECURSIVE NameCells(_)
NameCells(tables) ==
    IF tables = <<>> THEN <<>>
    ELSE [k \in 1..Len(Head(tables).rows) |-> Head(tables).rows[k][Name]]
         \o NameCells(Tail(tables))

Entered == pc \in {"loop", "report"} \/ (pc = "done" /\ ref_columns # <<>>)

\* C3: the first .xlsx upload of a base name wins: every later .xlsx upload of
\* that base name is recorded in skipped, in upload order, and the tables kept
\* (and so processed and the rows of the Consolidated Table) are those of first
\* uploads only, whether or not the first upload's extraction succeeded.
C3_FirstBaseNameWins ==
    Entered =>
        LET dup   == SelectSeq(Places(idx), LaterDuplicate)
            first == SelectSeq(Places(idx),
                               LAMBDA i : Admitted(i) /\ payroll_files[i].readable)
        IN  /\ skipped = NamesOf(dup)
            /\ Len(processed) = Len(first)
            /\ dfs = [k \in 1..Len(first) |-> TableOf(first[k])]
            /\ pc \in {"report", "done"} /\ dfs # <<>> =>
                   /\ NameCells(<<final_df>>) = NameCells(dfs)
                   /\ Range(final_df.cols) = UNION {Range(dfs[k].cols) : k \in 1..Len(dfs)}

\* C3: a run has ended in which the first upload of a base name failed, a later
\* upload of that base name was skipped, and another upload was consolidated.
C3_Witness ==
    /\ pc = "done"
    /\ Len(payroll_files) = 3
    /\ ~payroll_files[1].readable
    /\ LaterDuplicate(2)
    /\ skipped = <<NameAt(2)>>
    /\ processed = <<NameAt(3)>>
    /\ document.made

\* C8: a failing extraction does not end consolidate: the failing upload is only
\* warned about, every upload is read, and processed holds, in upload order, the
\* names of exactly the admitted uploads whose extraction succeeds, before and
\* after the failing one.
C8_FailureStaysLocal ==
    Entered =>
        LET good == SelectSeq(Places(idx),
                              LAMBDA i : Admitted(i) /\ process_payroll_file(payroll_files[i]).ok)
            bad  == SelectSeq(Places(idx),
                              LAMBDA i : Admitted(i) /\ ~process_payroll_file(payroll_files[i]).ok)
        IN  /\ processed = NamesOf(good)
            /\ warned = NamesOf(bad)
            /\ Len(dfs) = Len(processed)
            /\ Len(skipped) + Len(processed) + Len(warned)
                 = Cardinality({i \in 1..idx : HasXlsxName(i)})
            /\ pc \in {"report", "done"} => idx = Len(payroll_files)

\* C8: a run has ended in which the second of three uploads failed and the first and
\* the third were consolidated.
C8_Witness ==
    /\ pc = "done"
    /\ Len(payroll_files) = 3
    /\ warned = <<NameAt(2)>>
    /\ processed = <<NameAt(1), NameAt(3)>>
    /\ skipped = <<>>
    /\ document.made

\* C9: a run that passed the gate and derived the reference columns ends in one of
\* two ways: the Consolidated Table and the output document are produced, or the
\* warning is shown and no document is produced; the warning is shown if and only
\* if no upload was extracted, that is, processed is empty.
C9_WarningIffNothingProcessed ==
    pc = "done" /\ ref_columns # <<>> =>
        /\ ui \in {"warning: No files were processed.", "success: Consolidation completed."}
        /\ ui = "warning: No files were processed." <=> processed = <<>>
        /\ ui = "warning: No files were processed." => ~document.made
        /\ ui = "success: Consolidation completed." =>
               document.made /\ document.table = final_df /\ ~IsEmpty(final_df)

====
